---- MODULE Spec2Model ----
(***************************************************************************)
(* State-machine model of the LyncFormula task pane controller             *)
(* (src/excel_addin/taskpane/taskpane.js): the module-level variables, the *)
(* DOM elements and localStorage items the handlers read and write, and    *)
(* the network requests in flight.                                         *)
(*                                                                         *)
(* Text that the code inspects (the request input) is a sequence of        *)
(* one-character strings, so that trim(), toLowerCase() and includes() are *)
(* computed as the code computes them.  Text the code only copies (URLs,   *)
(* model names) is an opaque string.                                       *)
(*                                                                         *)
(* The service is outside the repository.  Its responses are taken to      *)
(* follow the interface the handlers read: a body is a JSON object of the  *)
(* expected shape, or it cannot be used (response.json() rejects, or the   *)
(* value has no fields to read), which ends in the handler's catch.        *)
(*                                                                         *)
(* Display state that no handler reads back is left out: which panels are  *)
(* shown (file selection, settings), the status indicator's class, the     *)
(* notification, scrolling, and the history list's markup, which           *)
(* updateHistoryDisplay derives from operationHistory.                     *)
(***************************************************************************)
EXTENDS Integers, Sequences, FiniteSets

VARIABLES
    serviceUrl,        \* let serviceUrl            (line 7)
    connectionStatus,  \* let connectionStatus      (line 8)
    selectedFiles,     \* let selectedFiles         (line 9)
    operationHistory,  \* let operationHistory      (line 10), while it is an array
    historyValue,      \* what operationHistory holds: "array", or the kind of
                       \* the value loadHistory assigned that is no array
    inputValue,        \* #natural-language-input .value
    submitDisabled,    \* #btn-submit .disabled
    loadingShown,      \* #loading-overlay .style.display = 'flex'
    resultsContent,    \* #results-content .innerHTML (what is rendered)
    statusText,        \* #status-text .textContent
    urlField,          \* #service-url .value
    modelField,        \* #llm-model .value
    backupField,       \* #auto-backup .checked
    storedSettings,    \* localStorage['lyncformula-settings']
    storedHistory,     \* localStorage['lyncformula-history']
    healthRequests,    \* GET /health requests awaiting their response: how
                       \* many there are to each URL
    requests,          \* handleSubmitRequest invocations suspended at an await
    now,               \* the clock read by Date.now() / new Date()
    saveFailures,      \* how often localStorage.setItem has thrown so far
    started,           \* how many handleSubmitRequest invocations passed the empty check
    rendered,          \* the last showAuditResults call made on its own: response and markup
    markup,            \* the values the page's markup gives the settings fields
                       \* and #btn-submit.disabled each time it is loaded
    lastOp             \* the handler that ran last: its name, its outcome, and
                       \* the query of a router call or a successful request;
                       \* for addToHistory called on its own the outcome is
                       \* how many such calls in a row this one completes,
                       \* 0 when it threw

vars == << serviceUrl, connectionStatus, selectedFiles, operationHistory,
           historyValue, inputValue, submitDisabled, loadingShown, resultsContent, statusText,
           urlField, modelField, backupField, storedSettings, storedHistory,
           healthRequests, requests, now, saveFailures, started, rendered,
           markup, lastOp >>

-----------------------------------------------------------------------------
(* Bounds of the model *)

MaxAdds == 21          \* addToHistory calls in a run of the history specification
MaxSaveFailures == 1   \* localStorage.setItem calls that throw in a run
MaxStarted == 2        \* submissions that get past the empty check in a run
MaxHealth == 2         \* /health requests awaiting a response at once
MaxIssues == 7         \* issues carried by an audit response

-----------------------------------------------------------------------------
(* Strings *)

UpperChars ==
    << "A", "B", "C", "D", "E", "F", "G", "H", "I", "J", "K", "L", "M", "N",
       "O", "P", "Q", "R", "S", "T", "U", "V", "W", "X", "Y", "Z" >>
LowerChars ==
    << "a", "b", "c", "d", "e", "f", "g", "h", "i", "j", "k", "l", "m", "n",
       "o", "p", "q", "r", "s", "t", "u", "v", "w", "x", "y", "z" >>

\* String.prototype.toLowerCase, one character
LowerChar(c) ==
    IF \E i \in 1..Len(UpperChars) : UpperChars[i] = c
    THEN LowerChars[CHOOSE i \in 1..Len(UpperChars) : UpperChars[i] = c]
    ELSE c

\* String.prototype.toLowerCase
toLowerCase(s) == [ i \in 1..Len(s) |-> LowerChar(s[i]) ]

\* String.prototype.includes: k occurs in s as a contiguous substring
includes(s, k) ==
    \E i \in 0..(Len(s) - Len(k)) : SubSeq(s, i + 1, i + Len(k)) = k

WhiteSpace == { " ", "\t", "\n" }

RECURSIVE trimStart(_)
trimStart(s) ==
    IF s # << >> /\ Head(s) \in WhiteSpace THEN trimStart(Tail(s)) ELSE s

RECURSIVE trimEnd(_)
trimEnd(s) ==
    IF s # << >> /\ s[Len(s)] \in WhiteSpace
    THEN trimEnd(SubSeq(s, 1, Len(s) - 1)) ELSE s

\* String.prototype.trim
trim(s) == trimEnd(trimStart(s))

-----------------------------------------------------------------------------
(* Keywords of the intent router (lines 234-249) *)

kwAudit       == << "a", "u", "d", "i", "t" >>
kwCheck       == << "c", "h", "e", "c", "k" >>
kwAnalyze     == << "a", "n", "a", "l", "y", "z", "e" >>
kwFile        == << "f", "i", "l", "e" >>
kwExplain     == << "e", "x", "p", "l", "a", "i", "n" >>
kwDescribe    == << "d", "e", "s", "c", "r", "i", "b", "e" >>
kwConsolidate == << "c", "o", "n", "s", "o", "l", "i", "d", "a", "t", "e" >>
kwMerge       == << "m", "e", "r", "g", "e" >>
kwCombine     == << "c", "o", "m", "b", "i", "n", "e" >>
kwFix         == << "f", "i", "x" >>
kwRepair      == << "r", "e", "p", "a", "i", "r" >>

Endpoints == { "/smart_analysis", "/audit_formulas", "/explain_sheet",
               "/consolidate_files", "/apply_fixes", "/natural_language" }

(* The router reads the module-level selectedFiles; query is its argument. *)
determineEndpointFileBlind(query) ==
    LET lowerQuery == toLowerCase(query) IN
    IF includes(lowerQuery, kwAudit) \/ includes(lowerQuery, kwCheck)
           \/ includes(lowerQuery, kwAnalyze)
    THEN IF includes(lowerQuery, kwFile)
         THEN "/smart_analysis" ELSE "/audit_formulas"
    ELSE IF includes(lowerQuery, kwExplain) \/ includes(lowerQuery, kwDescribe)
    THEN "/explain_sheet"
    ELSE IF includes(lowerQuery, kwConsolidate) \/ includes(lowerQuery, kwMerge)
               \/ includes(lowerQuery, kwCombine)
    THEN "/consolidate_files"
    ELSE IF includes(lowerQuery, kwFix) \/ includes(lowerQuery, kwRepair)
    THEN "/apply_fixes"
    ELSE "/natural_language"

determineEndpointFixFirst(query) ==
    LET lowerQuery == toLowerCase(query) IN
    IF includes(lowerQuery, kwFix) \/ includes(lowerQuery, kwRepair)
    THEN "/apply_fixes"
    ELSE IF includes(lowerQuery, kwAudit) \/ includes(lowerQuery, kwCheck)
           \/ includes(lowerQuery, kwAnalyze)
    THEN IF Len(selectedFiles) > 0 \/ includes(lowerQuery, kwFile)
         THEN "/smart_analysis" ELSE "/audit_formulas"
    ELSE IF includes(lowerQuery, kwExplain) \/ includes(lowerQuery, kwDescribe)
    THEN "/explain_sheet"
    ELSE IF includes(lowerQuery, kwConsolidate) \/ includes(lowerQuery, kwMerge)
               \/ includes(lowerQuery, kwCombine)
    THEN "/consolidate_files"
    ELSE "/natural_language"

determineEndpoint(query) ==
    LET lowerQuery == toLowerCase(query) IN
    IF includes(lowerQuery, kwAudit) \/ includes(lowerQuery, kwCheck)
           \/ includes(lowerQuery, kwAnalyze)
    THEN IF Len(selectedFiles) > 0 \/ includes(lowerQuery, kwFile)
         THEN "/smart_analysis" ELSE "/audit_formulas"
    ELSE IF includes(lowerQuery, kwExplain) \/ includes(lowerQuery, kwDescribe)
    THEN "/explain_sheet"
    ELSE IF includes(lowerQuery, kwConsolidate) \/ includes(lowerQuery, kwMerge)
               \/ includes(lowerQuery, kwCombine)
    THEN "/consolidate_files"
    ELSE IF includes(lowerQuery, kwFix) \/ includes(lowerQuery, kwRepair)
    THEN "/apply_fixes"
    ELSE "/natural_language"

-----------------------------------------------------------------------------
(* Query texts the router is applied to: one word, or two words separated  *)
(* by a space.  The words name every keyword, capitalised keywords, words  *)
(* that merely contain a keyword, and a word with no keyword.              *)

Words == { kwAudit, kwCheck, kwAnalyze, kwFile, kwExplain, kwDescribe,
           kwConsolidate, kwMerge, kwCombine, kwFix, kwRepair,
           << "A", "u", "d", "i", "t" >>,
           << "F", "I", "L", "E" >>,
           << "E", "x", "p", "l", "a", "i", "n" >>,
           << "p", "r", "o", "f", "i", "l", "e" >>,
           << "p", "r", "e", "f", "i", "x" >>,
           << "s", "u", "m" >> }

Queries == Words \cup { w1 \o << " " >> \o w2 : w1 \in Words, w2 \in Words }

-----------------------------------------------------------------------------
(* The file selection (lines 545-584) *)

mockFiles == <<
    [ name |-> "Q1_Sales.xlsx",    path |-> "C:\\Reports\\Q1_Sales.xlsx" ],
    [ name |-> "Q2_Sales.xlsx",    path |-> "C:\\Reports\\Q2_Sales.xlsx" ],
    [ name |-> "Budget_2024.xlsx", path |-> "C:\\Finance\\Budget_2024.xlsx" ] >>

\* mockFiles.forEach(file => { push }) without the find() test
RECURSIVE pushAll(_, _)
pushAll(files, selection) ==
    IF files = << >> THEN selection
    ELSE pushAll(Tail(files), Append(selection, Head(files)))

\* mockFiles.forEach(file => { if (!selectedFiles.find(...)) push })
RECURSIVE pushMissing(_, _)
pushMissing(files, selection) ==
    IF files = << >> THEN selection
    ELSE pushMissing(Tail(files),
             IF \E i \in 1..Len(selection) : selection[i].path = Head(files).path
             THEN selection
             ELSE Append(selection, Head(files)))

\* Array.prototype.splice(index, 1) for 0 <= index
splice1(a, index) ==
    [ i \in 1..(Len(a) - (IF index < Len(a) THEN 1 ELSE 0)) |->
        IF i <= index THEN a[i] ELSE a[i + 1] ]
-----------------------------------------------------------------------------
(* The texts the quick-action buttons put into the input (lines 53, 58, 63) *)

\* 'Audit all formulas in the current sheet for errors and issues'
auditSheetText ==
    << "A", "u", "d", "i", "t", " ", "a", "l", "l", " ", "f", "o", "r", "m",
       "u", "l", "a", "s", " ", "i", "n", " ", "t", "h", "e", " ", "c", "u",
       "r", "r", "e", "n", "t", " ", "s", "h", "e", "e", "t", " ", "f", "o",
       "r", " ", "e", "r", "r", "o", "r", "s", " ", "a", "n", "d", " ", "i",
       "s", "s", "u", "e", "s" >>

\* 'Explain all formulas in the current sheet in plain English'
explainFormulasText ==
    << "E", "x", "p", "l", "a", "i", "n", " ", "a", "l", "l", " ", "f", "o",
       "r", "m", "u", "l", "a", "s", " ", "i", "n", " ", "t", "h", "e", " ",
       "c", "u", "r", "r", "e", "n", "t", " ", "s", "h", "e", "e", "t", " ",
       "i", "n", " ", "p", "l", "a", "i", "n", " ", "E", "n", "g", "l", "i",
       "s", "h" >>

\* 'Consolidate multiple Excel files into a single summary report'
consolidateFilesText ==
    << "C", "o", "n", "s", "o", "l", "i", "d", "a", "t", "e", " ", "m", "u",
       "l", "t", "i", "p", "l", "e", " ", "E", "x", "c", "e", "l", " ", "f",
       "i", "l", "e", "s", " ", "i", "n", "t", "o", " ", "a", " ", "s", "i",
       "n", "g", "l", "e", " ", "s", "u", "m", "m", "a", "r", "y", " ", "r",
       "e", "p", "o", "r", "t" >>

-----------------------------------------------------------------------------
(* localStorage and JSON (lines 637-639, 649, 668-670, 698)                *)
(*                                                                         *)
(* An item is absent (getItem returns null) or holds a text.  The text     *)
(* setItem was given by this program is a sequence of values in the order  *)
(* JSON.stringify writes them; booleans become the words true and false.   *)
(* localStorage is shared by every page of the origin and open to the      *)
(* user, so an item can also hold a text this program did not write: the   *)
(* empty string, a text JSON.parse rejects, or the JSON of another value.  *)

NoItem == [ present |-> FALSE, json |-> "", text |-> << >> ]
Item(text) == [ present |-> TRUE, json |-> "written", text |-> text ]

\* an item holding a text this program did not write, by what the text is:
\* "" the empty string, "unparseable", or the JSON of null, of a number, of
\* an object without the expected properties, or (settings) of an object
\* whose serviceUrl is the number 5
ForeignItem(json) == [ present |-> TRUE, json |-> json, text |-> << >> ]
ForeignHistories == { "", "unparseable", "null", "number", "object" }
ForeignSettings  == { "", "unparseable", "null", "number", "object", "fields" }

\* `${serviceUrl}` and the value of #service-url once serviceUrl is the
\* number 5
ForeignUrl == "5"

\* if (stored): getItem returned a non-empty string (lines 638, 669)
truthyItem(stored) == stored.present /\ stored.json # ""

\* JSON.stringify(settings), settings = {serviceUrl, llmModel, autoBackup}
stringifySettings(settings) ==
    << settings.serviceUrl, settings.llmModel,
       IF settings.autoBackup THEN "true" ELSE "false" >>

\* JSON.parse of a text written by stringifySettings
parseSettings(text) ==
    [ serviceUrl |-> text[1], llmModel |-> text[2], autoBackup |-> (text[3] = "true") ]

\* JSON.stringify(operationHistory)
stringifyHistory(history) ==
    [ i \in 1..Len(history) |->
        << history[i].id, history[i].query, history[i].result, history[i].timestamp >> ]

\* JSON.parse of a text written by stringifyHistory
parseHistory(text) ==
    [ i \in 1..Len(text) |->
        [ id |-> text[i][1], query |-> text[i][2],
          result |-> text[i][3], timestamp |-> text[i][4] ] ]

-----------------------------------------------------------------------------
(* History (lines 589-606) *)

HistoryCap == 20

\* operationHistory.unshift(historyItem), without the slice(0, 20)
unshiftUncapped(history, historyItem) == << historyItem >> \o history

\* operationHistory.unshift(historyItem); if (length > 20) slice(0, 20)
unshiftCapped(history, historyItem) ==
    LET h == << historyItem >> \o history IN
    IF Len(h) > HistoryCap THEN SubSeq(h, 1, HistoryCap) ELSE h

\* const historyItem = { id: Date.now(), query, result, timestamp }
\* read at clock value t
newHistoryItem(query, result, t) ==
    [ id |-> t, query |-> query, result |-> result, timestamp |-> t ]

-----------------------------------------------------------------------------
(* Audit rendering (lines 373-419)                                         *)
(*                                                                         *)
(* An audit response carries issues (each with a severity) and may carry   *)
(* audit_summary.total_issues.  The markup is the summary's total and one  *)
(* item per rendered issue, with the CSS class chosen from its severity.   *)

Severities == { "high", "medium", "low" }

issueClass(severity) ==
    IF severity = "high" THEN "result-error"
    ELSE IF severity = "medium" THEN "result-warning"
    ELSE "result-success"

\* result.issues.slice(0, 5)
IssueLimit == 5

sliceAll(a, n) == a

slice0(a, n) == SubSeq(a, 1, IF Len(a) < n THEN Len(a) ELSE n)

showAuditResults(result) ==
    [ total |-> IF result.audit_summary.has_total
                THEN result.audit_summary.total_issues   \* summary.total_issues || 0
                ELSE 0,
      items |-> LET shown == slice0(result.issues, IssueLimit) IN
                [ i \in 1..Len(shown) |->
                    [ class |-> issueClass(shown[i]), severity |-> shown[i] ] ] ]

-----------------------------------------------------------------------------
(* Values the environment supplies *)

DefaultServiceUrl == "http://127.0.0.1:8700"

\* what the user can type into the settings panel
Urls   == { DefaultServiceUrl, "http://x", "" }
Models == { "m", "" }

\* what the user can type into the request input: nothing, a blank, or a
\* request with blanks around it
InputTexts == { << >>, << " " >>, << " " >> \o auditSheetText \o << " " >> }

\* how a GET /health can end: 2xx with the service record, 2xx with a body
\* that cannot be read (response.json() rejects, or reading data.service
\* throws), a non-2xx status, fetch rejecting
HealthOutcomes == { "ok", "unreadable", "http", "network" }

\* how a main action request can end: 2xx with success true, 2xx with
\* success false, 2xx with a body that cannot be read (response.json()
\* rejects, or reading result.success throws), a non-2xx status, fetch
\* rejecting
RequestOutcomes == { "success", "failure", "unreadable", "http", "network" }
RequestFailures == RequestOutcomes \ { "success" }

\* the body of a response with success = true, stored whole in the history
ResultPayload == "result"

Op(op, query, outcome) == [ op |-> op, query |-> query, outcome |-> outcome ]

NoResults == [ kind |-> "none", detail |-> "" ]
NotRendered == [ done |-> FALSE,
                 result |-> [ issues |-> << >>,
                              audit_summary |-> [ has_total |-> FALSE, total_issues |-> 0 ] ],
                 markup |-> [ total |-> 0, items |-> << >> ] ]

\* audit responses: up to MaxIssues issues, audit_summary.total_issues
\* absent or any count up to MaxIssues
IssueLists == UNION { [ 1..n -> Severities ] : n \in 0..MaxIssues }
AuditSummaries ==
    { [ has_total |-> FALSE, total_issues |-> 0 ] } \cup
    { [ has_total |-> TRUE, total_issues |-> t ] : t \in 0..MaxIssues }

\* checkServiceConnection up to its await (lines 125-128): one more request
\* to the serviceUrl of this moment
NoHealthRequests == [ url \in Urls |-> 0 ]
sendHealthRequest(pending, url) == [ pending EXCEPT ![url] = @ + 1 ]

RECURSIVE Sum(_, _)
Sum(f, S) == IF S = { } THEN 0
             ELSE LET x == CHOOSE y \in S : TRUE IN f[x] + Sum(f, S \ { x })

\* how many /health requests await their response
healthPending == Sum(healthRequests, Urls)

-----------------------------------------------------------------------------
(* Initial state: the script has been evaluated (lines 7-11) and           *)
(* initializeTaskPane has run against an empty localStorage, so the first  *)
(* health check is awaiting its response.  The markup is not part of the   *)
(* source: it gives the settings fields any values, the same ones each     *)
(* time the page is loaded, and has the submit button disabled.            *)

Init ==
    /\ serviceUrl = DefaultServiceUrl
    /\ connectionStatus = "connecting"
    /\ selectedFiles = << >>
    /\ operationHistory = << >>
    /\ historyValue = "array"
    /\ inputValue = << >>
    /\ markup \in [ urlField : Urls, modelField : Models,
                     backupField : BOOLEAN, submitDisabled : { TRUE } ]
    /\ submitDisabled = markup.submitDisabled
    /\ loadingShown = FALSE
    /\ resultsContent = NoResults
    /\ statusText = "initial"
    /\ urlField = markup.urlField
    /\ modelField = markup.modelField
    /\ backupField = markup.backupField
    /\ storedSettings = NoItem
    /\ storedHistory = NoItem
    /\ healthRequests = sendHealthRequest(NoHealthRequests, DefaultServiceUrl)
    /\ requests = << >>
    /\ now = 0
    /\ saveFailures = 0
    /\ started = 0
    /\ rendered = NotRendered
    /\ lastOp = Op("initializeTaskPane", << >>, "")

\* the same, for a page whose markup shows the default settings and has
\* the submit button disabled
InitPane ==
    /\ Init
    /\ markup = [ urlField |-> DefaultServiceUrl, modelField |-> "m",
                  backupField |-> TRUE, submitDisabled |-> TRUE ]

-----------------------------------------------------------------------------
(* Helpers shared by the handlers *)

\* a sequence without its i-th element
RemoveAt(a, i) == [ j \in 1..(Len(a) - 1) |-> IF j < i THEN a[j] ELSE a[j + 1] ]

\* validateInput (lines 155-163): the value it gives #btn-submit.disabled
validateInputIgnoresStatus(input, status) == Len(trim(input)) = 0

validateInput(input, status) ==
    LET hasInput    == Len(trim(input)) > 0
        isConnected == status = "connected"
    IN  ~hasInput \/ ~isConnected

\* showError (lines 517-532)
showError(message) == [ kind |-> "error", detail |-> message ]

\* showResults (lines 315-339): the panel shows the rendered payload
showResults(result) == [ kind |-> "results", detail |-> result ]

\* saveHistory (lines 647-653): setItem stores the text, or throws (the
\* quota is exceeded) and the catch leaves the item as it was
saveHistory(history) ==
    \/ /\ storedHistory' = Item(stringifyHistory(history))
       /\ saveFailures' = saveFailures
    \/ /\ saveFailures < MaxSaveFailures
       /\ storedHistory' = storedHistory
       /\ saveFailures' = saveFailures + 1

\* addToHistory (lines 589-606); updateHistoryDisplay renders
\* operationHistory and keeps no state of its own.  When operationHistory
\* is no array, operationHistory.unshift is not a function and line 597
\* throws a TypeError.
addToHistory(query, result) ==
    IF historyValue = "array"
    THEN /\ now' = now + 1
         /\ operationHistory' = unshiftCapped(operationHistory, newHistoryItem(query, result, now'))
         /\ saveHistory(operationHistory')
         /\ UNCHANGED historyValue
    ELSE UNCHANGED << operationHistory, historyValue, storedHistory, now, saveFailures >>

\* loadHistory (lines 635-645): what it leaves in operationHistory, given
\* what was there.  JSON.parse throws on an unparseable text before the
\* assignment of line 639; any other value is assigned, and when it is no
\* array updateHistoryDisplay throws after the assignment (line 611 for
\* null, line 616 otherwise) and the catch keeps the value.
loadHistory(stored, history) ==
    IF ~truthyItem(stored) \/ stored.json = "unparseable" THEN history
    ELSE IF stored.json = "written"
         THEN [ value |-> "array", list |-> parseHistory(stored.text) ]
         ELSE [ value |-> stored.json, list |-> << >> ]

\* a JavaScript string used as a condition
truthy(str) == str # ""

\* loadSettings (lines 666-688): the serviceUrl, #service-url, #llm-model
\* and #auto-backup it leaves, given what they were.  autoBackup is never
\* undefined in a text saveSettings wrote.  Of the other texts, JSON.parse
\* throws on an unparseable one, reading null.serviceUrl throws, a number
\* or an object without the properties passes no guard, and a serviceUrl
\* of 5 passes the guard of line 672.
loadSettingsKeepsUrl(stored, url, fields) ==
    IF truthyItem(stored) /\ stored.json = "written"
    THEN LET settings == parseSettings(stored.text) IN
         [ serviceUrl |-> url,
           urlField   |-> IF truthy(settings.serviceUrl) THEN settings.serviceUrl ELSE fields.urlField,
           modelField |-> IF truthy(settings.llmModel) THEN settings.llmModel ELSE fields.modelField,
           backupField |-> settings.autoBackup ]
    ELSE [ serviceUrl |-> url, urlField |-> fields.urlField,
           modelField |-> fields.modelField, backupField |-> fields.backupField ]

loadSettings(stored, url, fields) ==
    IF truthyItem(stored) /\ stored.json = "written"
    THEN LET settings == parseSettings(stored.text) IN
         [ serviceUrl |-> IF truthy(settings.serviceUrl) THEN settings.serviceUrl ELSE url,
           urlField   |-> IF truthy(settings.serviceUrl) THEN settings.serviceUrl ELSE fields.urlField,
           modelField |-> IF truthy(settings.llmModel) THEN settings.llmModel ELSE fields.modelField,
           backupField |-> settings.autoBackup ]
    ELSE IF truthyItem(stored) /\ stored.json = "fields"
    THEN [ serviceUrl |-> ForeignUrl, urlField |-> ForeignUrl,
           modelField |-> fields.modelField, backupField |-> fields.backupField ]
    ELSE [ serviceUrl |-> url, urlField |-> fields.urlField,
           modelField |-> fields.modelField, backupField |-> fields.backupField ]

\* checkServiceConnection (lines 130-149): the connectionStatus a response
\* leaves.  A 2xx whose body cannot be read ends in the catch.
statusTrustsOk(outcome) ==
    IF outcome \in { "ok", "unreadable" } THEN "connected" ELSE "error"

statusAfterHealth(outcome) ==
    IF outcome = "ok" THEN "connected" ELSE "error"

\* handleSubmitRequest (lines 206-222): the input a response leaves
inputAlwaysCleared(outcome, input) == << >>

inputNeverCleared(outcome, input) == input

inputAfterResponse(outcome, input) ==
    IF outcome = "success" THEN << >> ELSE input

\* handleSubmitRequest (lines 206-222): the value of #btn-submit.disabled a
\* response leaves.  Only the success branch runs validateInput (line 212),
\* on the input it has just cleared and the connectionStatus of that moment.
submitUntouched(outcome, input, status, disabled) == disabled

submitAfterResponse(outcome, input, status, disabled) ==
    IF outcome = "success"
    THEN validateInput(inputAfterResponse(outcome, input), status)
    ELSE disabled

\* checkServiceConnection (lines 130-149): the value of #btn-submit.disabled
\* a response leaves: validateInput after 'connected' (line 137), true in
\* the catch (line 148)
submitAfterHealth(outcome, input) ==
    IF statusAfterHealth(outcome) = "connected"
    THEN validateInput(input, statusAfterHealth(outcome))
    ELSE TRUE

\* handleSubmitRequest (lines 217, 222): the message shown for a failure
failureMessage(outcome) ==
    IF outcome = "failure" THEN "Operation failed" ELSE "Request failed"

-----------------------------------------------------------------------------
(* Variable groups *)

settingsVars == << urlField, modelField, backupField, storedSettings >>
historyVars  == << operationHistory, historyValue, storedHistory, now >>
connVars     == << connectionStatus, statusText, healthRequests >>
submitVars   == << requests, started, loadingShown >>

-----------------------------------------------------------------------------
(* File selection *)

\* browseFiles (lines 545-563)
browseFiles ==
    /\ selectedFiles' = pushMissing(mockFiles, selectedFiles)
    /\ lastOp' = Op("browseFiles", << >>, "")
    /\ UNCHANGED << serviceUrl, inputValue, submitDisabled, resultsContent,
                    settingsVars, historyVars, saveFailures, connVars,
                    submitVars, rendered, markup >>

\* removeFile(index) (lines 581-584), index as rendered in the list
removeFile ==
    \E index \in 0..(Len(selectedFiles) - 1) :
        /\ selectedFiles' = splice1(selectedFiles, index)
        /\ lastOp' = Op("removeFile", << >>, "")
        /\ UNCHANGED << serviceUrl, inputValue, submitDisabled, resultsContent,
                        settingsVars, historyVars, saveFailures, connVars,
                        submitVars, rendered, markup >>

-----------------------------------------------------------------------------
(* The router and the audit renderer, called on their own *)

\* determineEndpoint(query); a call changes nothing, so a second call in a
\* row adds no behaviour
CallDetermineEndpoint ==
    \E query \in Queries :
        /\ lastOp.op # "determineEndpoint"
        /\ lastOp' = Op("determineEndpoint", query, determineEndpoint(query))
        /\ UNCHANGED << serviceUrl, selectedFiles, inputValue, submitDisabled,
                        resultsContent, settingsVars, historyVars, saveFailures,
                        connVars, submitVars, rendered, markup >>

\* showAuditResults on an empty container
CallShowAuditResults ==
    /\ ~rendered.done
    /\ \E issues \in IssueLists, summary \in AuditSummaries :
         LET result == [ issues |-> issues, audit_summary |-> summary ] IN
         rendered' = [ done |-> TRUE, result |-> result,
                       markup |-> showAuditResults(result) ]
    /\ lastOp' = Op("showAuditResults", << >>, "")
    /\ UNCHANGED << serviceUrl, selectedFiles, inputValue, submitDisabled,
                    resultsContent, settingsVars, historyVars, saveFailures,
                    connVars, submitVars, markup >>

-----------------------------------------------------------------------------
(* History *)

CallAddToHistory ==
    /\ now < MaxAdds
    /\ addToHistory(kwFix, ResultPayload)
    /\ lastOp' = Op("addToHistory", << >>,
                     IF historyValue # "array" THEN 0
                     ELSE IF lastOp.op = "addToHistory" THEN lastOp.outcome + 1 ELSE 1)
    /\ UNCHANGED << serviceUrl, selectedFiles, inputValue, submitDisabled,
                    resultsContent, settingsVars, connVars, submitVars, rendered, markup >>

\* clearHistory (lines 629-633)
clearHistory ==
    /\ operationHistory' = << >>
    /\ historyValue' = "array"
    /\ saveHistory(operationHistory')
    /\ lastOp' = Op("clearHistory", << >>, "")
    /\ UNCHANGED << serviceUrl, selectedFiles, inputValue, submitDisabled,
                    resultsContent, settingsVars, now, connVars, submitVars,
                    rendered, markup >>

CallLoadHistory ==
    LET loaded == loadHistory(storedHistory,
                      [ value |-> historyValue, list |-> operationHistory ]) IN
    /\ operationHistory' = loaded.list
    /\ historyValue' = loaded.value
    /\ lastOp' = Op("loadHistory", << >>, "")
    /\ UNCHANGED << serviceUrl, selectedFiles, inputValue, submitDisabled,
                    resultsContent, settingsVars, storedHistory, now,
                    saveFailures, connVars, submitVars, rendered, markup >>

\* repeatOperation(query) (lines 624-627), from a click on a history item
repeatOperation ==
    \E i \in 1..Len(operationHistory) :
        /\ inputValue' = operationHistory[i].query
        /\ submitDisabled' = validateInput(inputValue', connectionStatus)
        /\ lastOp' = Op("repeatOperation", << >>, "")
        /\ UNCHANGED << serviceUrl, selectedFiles, resultsContent, settingsVars,
                        historyVars, saveFailures, connVars, submitVars, rendered, markup >>

-----------------------------------------------------------------------------
(* The request input *)

\* the user edits the input: the 'input' listener runs validateInput (line 82)
TypeInput ==
    \E text \in InputTexts :
        /\ text # inputValue
        /\ inputValue' = text
        /\ submitDisabled' = validateInput(text, connectionStatus)
        /\ lastOp' = Op("edit", << >>, "")
        /\ UNCHANGED << serviceUrl, selectedFiles, resultsContent, settingsVars,
                        historyVars, saveFailures, connVars, submitVars, rendered, markup >>

-----------------------------------------------------------------------------
(* Submission (lines 168-226) *)

\* handleSubmitRequest up to its first await (lines 169-184), reading input
handleSubmitRequest(input) ==
    LET query == trim(input) IN
    /\ IF query = << >>
       THEN /\ resultsContent' = showError("Please enter a request")
            /\ UNCHANGED submitVars
       ELSE /\ started < MaxStarted
            /\ loadingShown' = TRUE
            /\ started' = started + 1
            /\ requests' = Append(requests,
                   [ query |-> query, stage |-> "context",
                     endpoint |-> "", url |-> "", files |-> << >> ])
            /\ UNCHANGED resultsContent
    /\ lastOp' = Op("handleSubmitRequest", << >>, IF query = << >> THEN "empty" ELSE "started")

\* click on #btn-submit (line 49); a disabled button fires no click
btnSubmit ==
    /\ ~submitDisabled
    /\ handleSubmitRequest(inputValue)
    /\ UNCHANGED << serviceUrl, selectedFiles, inputValue, submitDisabled,
                    settingsVars, historyVars, saveFailures, connVars, rendered, markup >>

\* Ctrl+Enter in the input (lines 83-87)
ctrlEnter ==
    /\ handleSubmitRequest(inputValue)
    /\ UNCHANGED << serviceUrl, selectedFiles, inputValue, submitDisabled,
                    settingsVars, historyVars, saveFailures, connVars, rendered, markup >>

\* click on #btn-audit-sheet (lines 52-55)
btnAuditSheet ==
    /\ inputValue' = auditSheetText
    /\ handleSubmitRequest(auditSheetText)
    /\ UNCHANGED << serviceUrl, selectedFiles, submitDisabled, settingsVars,
                    historyVars, saveFailures, connVars, rendered, markup >>

\* click on #btn-explain-formulas (lines 57-60)
btnExplainFormulas ==
    /\ inputValue' = explainFormulasText
    /\ handleSubmitRequest(explainFormulasText)
    /\ UNCHANGED << serviceUrl, selectedFiles, submitDisabled, settingsVars,
                    historyVars, saveFailures, connVars, rendered, markup >>

\* click on #btn-consolidate-files (lines 62-65): fills the input, sends nothing
btnConsolidateFiles ==
    /\ inputValue # consolidateFilesText
    /\ inputValue' = consolidateFilesText
    /\ lastOp' = Op("edit", << >>, "")
    /\ UNCHANGED << serviceUrl, selectedFiles, submitDisabled, resultsContent,
                    settingsVars, historyVars, saveFailures, connVars,
                    submitVars, rendered, markup >>

\* getCurrentExcelContext resolves (line 184): the endpoint is chosen and the
\* request is sent (lines 188-197) with the serviceUrl and files of this moment
contextResolved ==
    \E i \in 1..Len(requests) :
        /\ requests[i].stage = "context"
        /\ requests' = [ requests EXCEPT ![i] =
               [ @ EXCEPT !.stage = "fetch",
                          !.endpoint = determineEndpoint(requests[i].query),
                          !.url = serviceUrl,
                          !.files = selectedFiles ] ]
        /\ lastOp' = Op("context", << >>, "")
        /\ UNCHANGED << serviceUrl, selectedFiles, inputValue, submitDisabled,
                        loadingShown, resultsContent, started, settingsVars,
                        historyVars, saveFailures, connVars, rendered, markup >>

\* the response is 2xx and its body has success = true (lines 206-215, 224).
\* When addToHistory throws, the results rendered at line 207 are replaced
\* by the error of the catch (line 222) and lines 211-215 do not run.
requestSucceeds ==
    \E i \in 1..Len(requests) :
        /\ requests[i].stage = "fetch"
        /\ addToHistory(requests[i].query, ResultPayload)
        /\ IF historyValue = "array"
           THEN /\ resultsContent' = showResults(ResultPayload)
                /\ inputValue' = inputAfterResponse("success", inputValue)
                /\ submitDisabled' = submitAfterResponse("success", inputValue,
                                          connectionStatus, submitDisabled)
                /\ lastOp' = Op("response", requests[i].query, "success")
           ELSE /\ resultsContent' = showError("Request failed")
                /\ UNCHANGED << inputValue, submitDisabled >>
                /\ lastOp' = Op("response", << >>, "threw")
        /\ loadingShown' = FALSE
        /\ requests' = RemoveAt(requests, i)
        /\ UNCHANGED << serviceUrl, selectedFiles, started, settingsVars,
                        connVars, rendered, markup >>

\* fetch rejects, the status is not 2xx, the body cannot be read, or it has
\* success = false (lines 199-201, 216-224)
requestFails ==
    \E i \in 1..Len(requests), outcome \in RequestFailures :
        /\ requests[i].stage = "fetch"
        /\ resultsContent' = showError(failureMessage(outcome))
        /\ inputValue' = inputAfterResponse(outcome, inputValue)
        /\ submitDisabled' = submitAfterResponse(outcome, inputValue,
                                                  connectionStatus, submitDisabled)
        /\ loadingShown' = FALSE
        /\ requests' = RemoveAt(requests, i)
        /\ lastOp' = Op("response", << >>, outcome)
        /\ UNCHANGED << serviceUrl, selectedFiles, started,
                        settingsVars, historyVars, saveFailures, connVars,
                        rendered, markup >>

-----------------------------------------------------------------------------
(* Connection monitor (lines 120-150, 825) *)

\* the 30 s interval fires (line 825)
checkServiceConnection ==
    /\ healthPending < MaxHealth
    /\ healthRequests' = sendHealthRequest(healthRequests, serviceUrl)
    /\ lastOp' = Op("checkServiceConnection", << >>, "")
    /\ UNCHANGED << serviceUrl, connectionStatus, statusText, selectedFiles,
                    inputValue, submitDisabled, resultsContent, settingsVars,
                    historyVars, saveFailures, submitVars, rendered, markup >>

\* a /health request ends (lines 130-149)
healthResponse ==
    \E url \in Urls, outcome \in HealthOutcomes :
        /\ healthRequests[url] > 0
        /\ connectionStatus' = statusAfterHealth(outcome)
        /\ statusText' = IF connectionStatus' = "connected"
                         THEN "Connected to X v1.0"
                         ELSE "Service unavailable - Check if Python service is running"
        /\ submitDisabled' = submitAfterHealth(outcome, inputValue)
        /\ healthRequests' = [ healthRequests EXCEPT ![url] = @ - 1 ]
        /\ lastOp' = Op("health", << >>, outcome)
        /\ UNCHANGED << serviceUrl, selectedFiles, inputValue, resultsContent,
                        settingsVars, historyVars, saveFailures, submitVars,
                        rendered, markup >>

-----------------------------------------------------------------------------
(* Settings (lines 666-713) *)

\* the user edits one field of the settings panel
editSettings ==
    /\ \/ \E u \in Urls \ { urlField } :
             urlField' = u /\ UNCHANGED << modelField, backupField >>
       \/ \E m \in Models \ { modelField } :
             modelField' = m /\ UNCHANGED << urlField, backupField >>
       \/ backupField' = ~backupField /\ UNCHANGED << urlField, modelField >>
    /\ lastOp' = Op("edit", << >>, "")
    /\ UNCHANGED << serviceUrl, selectedFiles, inputValue, submitDisabled,
                    resultsContent, storedSettings, historyVars,
                    saveFailures, connVars, submitVars, rendered, markup >>

\* saveSettings (lines 690-713): setItem stores the text, or throws
saveSettings ==
    LET settings == [ serviceUrl |-> urlField, llmModel |-> modelField,
                      autoBackup |-> backupField ] IN
    \/ /\ healthPending < MaxHealth
       /\ storedSettings' = Item(stringifySettings(settings))
       /\ serviceUrl' = settings.serviceUrl
       /\ healthRequests' = sendHealthRequest(healthRequests, serviceUrl')
       /\ lastOp' = Op("saveSettings", << >>, "saved")
       /\ UNCHANGED << connectionStatus, statusText, selectedFiles, inputValue,
                       submitDisabled, resultsContent, urlField, modelField,
                       backupField, historyVars, saveFailures, submitVars,
                       rendered, markup >>
    \/ /\ saveFailures < MaxSaveFailures
       /\ saveFailures' = saveFailures + 1
       /\ resultsContent' = showError("Failed to save settings")
       /\ lastOp' = Op("saveSettings", << >>, "failed")
       /\ UNCHANGED << serviceUrl, selectedFiles, inputValue, submitDisabled,
                       settingsVars, historyVars, connVars, submitVars, rendered, markup >>

CallLoadSettings ==
    LET loaded == loadSettings(storedSettings, serviceUrl,
                      [ urlField |-> urlField, modelField |-> modelField,
                        backupField |-> backupField ]) IN
    /\ serviceUrl' = loaded.serviceUrl
    /\ urlField' = loaded.urlField
    /\ modelField' = loaded.modelField
    /\ backupField' = loaded.backupField
    /\ lastOp' = Op("loadSettings", << >>, "")
    /\ UNCHANGED << selectedFiles, inputValue, submitDisabled, resultsContent,
                    storedSettings, historyVars, saveFailures, connVars,
                    submitVars, rendered, markup >>

\* someone else writes or removes an item of localStorage: another page of
\* the origin, the user, an earlier version of the add-in.  The program
\* meets the item at its next getItem (lines 637, 668).
storageChanged ==
    /\ \/ \E json \in ForeignHistories :
             /\ storedHistory.json # json \/ ~storedHistory.present
             /\ storedHistory' = ForeignItem(json)
             /\ UNCHANGED storedSettings
       \/ \E json \in ForeignSettings :
             /\ storedSettings.json # json \/ ~storedSettings.present
             /\ storedSettings' = ForeignItem(json)
             /\ UNCHANGED storedHistory
       \/ /\ storedHistory.present
          /\ storedHistory' = NoItem
          /\ UNCHANGED storedSettings
    /\ lastOp' = Op("storage", << >>, "")
    /\ UNCHANGED << serviceUrl, connectionStatus, statusText, healthRequests,
                    selectedFiles, operationHistory, historyValue, now,
                    inputValue, submitDisabled, resultsContent, urlField,
                    modelField, backupField, saveFailures, submitVars,
                    rendered, markup >>

\* the page is loaded again: the script is evaluated (lines 7-11), the
\* markup is fresh, pending responses of the old page are dropped, and
\* initializeTaskPane (lines 23-42) sends the health check before it loads
\* the settings and the history
initializeTaskPane ==
    LET loaded == loadSettings(storedSettings, DefaultServiceUrl,
                      [ urlField |-> markup.urlField, modelField |-> markup.modelField,
                        backupField |-> markup.backupField ]) IN
    /\ healthRequests' = sendHealthRequest(NoHealthRequests, DefaultServiceUrl)
    /\ serviceUrl' = loaded.serviceUrl
    /\ urlField' = loaded.urlField
    /\ modelField' = loaded.modelField
    /\ backupField' = loaded.backupField
    /\ operationHistory' = loadHistory(storedHistory, [ value |-> "array", list |-> << >> ]).list
    /\ historyValue' = loadHistory(storedHistory, [ value |-> "array", list |-> << >> ]).value
    /\ connectionStatus' = "connecting"
    /\ statusText' = "initial"
    /\ selectedFiles' = << >>
    /\ inputValue' = << >>
    /\ submitDisabled' = markup.submitDisabled
    /\ loadingShown' = FALSE
    /\ resultsContent' = NoResults
    /\ requests' = << >>
    /\ rendered' = NotRendered
    /\ lastOp' = Op("initializeTaskPane", << >>, "")
    /\ UNCHANGED << storedSettings, storedHistory, now, saveFailures, started,
                    markup >>

-----------------------------------------------------------------------------
(* Specifications *)

\* the submission flow: the triggers, the two awaits, the history, and the
\* response to the health check sent at start-up
Next ==
    \/ TypeInput
    \/ btnSubmit
    \/ ctrlEnter
    \/ btnAuditSheet
    \/ btnExplainFormulas
    \/ contextResolved
    \/ requestSucceeds
    \/ requestFails
    \/ repeatOperation
    \/ clearHistory
    \/ healthResponse

Spec == InitPane /\ [][Next]_vars

\* the file selection (opened by #btn-consolidate-files) and the router
NextRoute ==
    \/ btnConsolidateFiles
    \/ browseFiles
    \/ removeFile
    \/ CallDetermineEndpoint

SpecRoute == InitPane /\ [][NextRoute]_vars

\* the history list and its stored copy
NextHistory ==
    \/ CallAddToHistory
    \/ clearHistory
    \/ CallLoadHistory

SpecHistory == InitPane /\ [][NextHistory]_vars

\* the connection monitor and the submit button: checks sent at start-up,
\* by the timer and by saveSettings
NextMonitor ==
    \/ TypeInput
    \/ editSettings
    \/ saveSettings
    \/ checkServiceConnection
    \/ healthResponse

SpecMonitor == InitPane /\ [][NextMonitor]_vars

\* the settings, with the health checks that saving and reloading send
NextSettings ==
    \/ editSettings
    \/ saveSettings
    \/ CallLoadSettings
    \/ initializeTaskPane
    \/ healthResponse

SpecSettings == Init /\ [][NextSettings]_vars

\* the submit button and all that bears on it: input edits, the quick
\* actions, history replay, and health checks sent by the timer while
\* requests are awaiting their responses
NextPane ==
    \/ TypeInput
    \/ btnSubmit
    \/ btnAuditSheet
    \/ btnConsolidateFiles
    \/ repeatOperation
    \/ contextResolved
    \/ requestSucceeds
    \/ requestFails
    \/ checkServiceConnection
    \/ healthResponse

SpecPane == InitPane /\ [][NextPane]_vars

\* health checks sent by the timer while requests submitted with Ctrl+Enter
\* are awaiting their responses
NextOverlap ==
    \/ TypeInput
    \/ ctrlEnter
    \/ contextResolved
    \/ requestSucceeds
    \/ requestFails
    \/ checkServiceConnection
    \/ healthResponse

SpecOverlap == InitPane /\ [][NextOverlap]_vars

\* loading the page with items in localStorage that this program did not
\* write, and the requests made afterwards
NextStorage ==
    \/ storageChanged
    \/ initializeTaskPane
    \/ btnAuditSheet
    \/ contextResolved
    \/ requestSucceeds
    \/ clearHistory

SpecStorage == InitPane /\ [][NextStorage]_vars

\* the audit renderer
NextAudit == CallShowAuditResults

SpecAudit == InitPane /\ [][NextAudit]_vars

-----------------------------------------------------------------------------
(* Claims *)

\* C1: operationHistory never has more than 20 entries and is ordered
\* newest-first (ids strictly decreasing from index 0); the entry a call of
\* addToHistory adds is at index 0, and after 21 or more calls in a row the
\* entry the first of them added is gone.
C1_HistoryCappedNewestFirst ==
    /\ Len(operationHistory) <= HistoryCap
    /\ \A i \in 1..(Len(operationHistory) - 1) :
          operationHistory[i].id > operationHistory[i + 1].id
    /\ lastOp.op = "addToHistory" =>
          /\ operationHistory # << >>
          /\ operationHistory[1].id = now
          /\ lastOp.outcome > HistoryCap =>
                \A i \in 1..Len(operationHistory) :
                    operationHistory[i].id # now - lastOp.outcome + 1

\* 21 calls in a row have been made and the list is full
C1_Witness ==
    /\ lastOp.op = "addToHistory"
    /\ lastOp.outcome = HistoryCap + 1
    /\ Len(operationHistory) = HistoryCap

\* C2: selectedFiles never holds two entries with the same path.
C2_NoDuplicatePaths ==
    \A i, j \in 1..Len(selectedFiles) :
        i # j => selectedFiles[i].path # selectedFiles[j].path

\* browseFiles has re-added a file that had been removed
C2_Witness ==
    /\ lastOp.op = "browseFiles"
    /\ Len(selectedFiles) = Len(mockFiles)
    /\ selectedFiles[Len(selectedFiles)].path = mockFiles[1].path

\* C3: at most one main action request is awaiting its response.
C3_AtMostOneInFlight ==
    Cardinality({ i \in 1..Len(requests) : requests[i].stage = "fetch" }) <= 1

\* C4: a query whose lower-cased text contains "audit" and not "file" is
\* routed to /audit_formulas when no file is selected and to
\* /smart_analysis when one is.
C4_AuditRouting ==
    ( /\ lastOp.op = "determineEndpoint"
      /\ includes(toLowerCase(lastOp.query), kwAudit)
      /\ ~includes(toLowerCase(lastOp.query), kwFile) )
    => lastOp.outcome = IF selectedFiles = << >> THEN "/audit_formulas"
                        ELSE "/smart_analysis"

\* a capitalised audit query routed with files selected
C4_Witness ==
    /\ lastOp.op = "determineEndpoint"
    /\ lastOp.query = << "A", "u", "d", "i", "t" >> \o << " " >> \o kwFix
    /\ selectedFiles # << >>
    /\ lastOp.outcome = "/smart_analysis"

\* the settings the fields of the panel hold
panelSettings ==
    [ serviceUrl |-> urlField, llmModel |-> modelField, autoBackup |-> backupField ]

\* C5 as stated: after loadSettings (called on its own or by
\* initializeTaskPane) all three fields and the active serviceUrl equal the
\* settings saveSettings stored, whatever their values.
C5_RoundTripAnyValue ==
    ( /\ lastOp.op \in { "loadSettings", "initializeTaskPane" }
      /\ storedSettings.present )
    => /\ panelSettings = parseSettings(storedSettings.text)
       /\ serviceUrl = parseSettings(storedSettings.text).serviceUrl

\* C5, amended: saveSettings stores a text that parses back to the panel's
\* settings and makes its serviceUrl the active one.  After loadSettings the
\* auto-backup field equals the stored flag (false included); the URL field
\* and the active serviceUrl equal the stored serviceUrl when it is not
\* empty, and the model field equals the stored llmModel when it is not empty.
C5_RoundTripNonEmpty ==
    /\ []( ( /\ lastOp.op \in { "loadSettings", "initializeTaskPane" }
             /\ storedSettings.present )
           => LET settings == parseSettings(storedSettings.text) IN
              /\ backupField = settings.autoBackup
              /\ settings.serviceUrl # "" =>
                    urlField = settings.serviceUrl /\ serviceUrl = settings.serviceUrl
              /\ settings.llmModel # "" => modelField = settings.llmModel )
    /\ [][ ( lastOp'.op = "saveSettings" /\ lastOp'.outcome = "saved" )
           => /\ storedSettings'.present
              /\ parseSettings(storedSettings'.text) = panelSettings
              /\ serviceUrl' = urlField ]_vars

\* a reload has restored a non-default URL, a model and autoBackup = false
C5_Witness ==
    /\ lastOp.op = "initializeTaskPane"
    /\ storedSettings.present
    /\ serviceUrl = "http://x" /\ urlField = "http://x"
    /\ modelField = "m"
    /\ backupField = FALSE

\* C6: a completed health check leaves connectionStatus 'connected' when
\* the response was 2xx with a readable body, and 'error' with the submit
\* button disabled after any failure; once the status has left
\* 'connecting' it never returns to it.
C6_HealthSetsStatus ==
    /\ []( lastOp.op = "health" =>
             IF lastOp.outcome = "ok"
             THEN connectionStatus = "connected"
             ELSE connectionStatus = "error" /\ submitDisabled )
    /\ [][ connectionStatus # "connecting" => connectionStatus' # "connecting" ]_vars

\* a 2xx response with an unreadable body has disabled the button although
\* there is input
C6_Witness ==
    /\ lastOp.op = "health"
    /\ lastOp.outcome = "unreadable"
    /\ trim(inputValue) # << >>
    /\ connectionStatus = "error"
    /\ submitDisabled

C8_FailureLeavesState ==
    [][ ( lastOp'.op = "response" /\ lastOp'.outcome \in RequestFailures )
        => /\ resultsContent'.kind = "error"
           /\ inputValue' = inputValue
           /\ operationHistory' = operationHistory
           /\ storedHistory' = storedHistory ]_vars

\* a request has failed with input in the field and an entry in the history
C8_Witness ==
    /\ lastOp.op = "response" /\ lastOp.outcome = "http"
    /\ inputValue = explainFormulasText
    /\ Len(operationHistory) = 1
    /\ resultsContent.kind = "error"

Min(a, b) == IF a < b THEN a ELSE b

\* C9 as stated: min(n, 5) issue items are rendered and the summary's total
\* equals n, the number of issues of the response.
C9_TotalIsIssueCount ==
    rendered.done =>
        /\ Len(rendered.markup.items) = Min(Len(rendered.result.issues), IssueLimit)
        /\ rendered.markup.total = Len(rendered.result.issues)

\* C9, amended: the first min(n, 5) issues are rendered, in order, and the
\* summary's total is the response's audit_summary.total_issues, 0 when the
\* response carries none.
C9_TotalIsReportedCount ==
    rendered.done =>
        /\ Len(rendered.markup.items) = Min(Len(rendered.result.issues), IssueLimit)
        /\ \A i \in 1..Len(rendered.markup.items) :
              rendered.markup.items[i].severity = rendered.result.issues[i]
        /\ rendered.markup.total =
              IF rendered.result.audit_summary.has_total
              THEN rendered.result.audit_summary.total_issues ELSE 0

\* seven issues, reported as seven: five items and a total of 7
C9_Witness ==
    /\ rendered.done
    /\ Len(rendered.result.issues) = 7
    /\ rendered.result.audit_summary.has_total
    /\ rendered.result.audit_summary.total_issues = 7
    /\ Len(rendered.markup.items) = 5
    /\ rendered.markup.total = 7

\* the keyword groups in their order, and the endpoints of each
KeywordGroups ==
    << { kwAudit, kwCheck, kwAnalyze },
       { kwExplain, kwDescribe },
       { kwConsolidate, kwMerge, kwCombine },
       { kwFix, kwRepair } >>

GroupEndpoints ==
    << { "/smart_analysis", "/audit_formulas" },
       { "/explain_sheet" },
       { "/consolidate_files" },
       { "/apply_fixes" } >>

GroupPresent(query, g) ==
    \E kw \in KeywordGroups[g] : includes(toLowerCase(query), kw)

\* C10: determineEndpoint returns one of the six endpoints: that of the
\* first keyword group the query has a keyword of, and /natural_language
\* when it has none.
C10_FirstMatch ==
    lastOp.op = "determineEndpoint" =>
        /\ lastOp.outcome \in Endpoints
        /\ \A g \in 1..Len(KeywordGroups) :
              ( /\ GroupPresent(lastOp.query, g)
                /\ \A h \in 1..(g - 1) : ~GroupPresent(lastOp.query, h) )
              => lastOp.outcome \in GroupEndpoints[g]
        /\ ( \A g \in 1..Len(KeywordGroups) : ~GroupPresent(lastOp.query, g) )
              => lastOp.outcome = "/natural_language"

\* "fix audit": keywords of the last and the first group, routed as an audit
C10_Witness ==
    /\ lastOp.op = "determineEndpoint"
    /\ lastOp.query = kwFix \o << " " >> \o kwAudit
    /\ lastOp.outcome = "/audit_formulas"

\* a /health response and the response to a main action request are both
\* awaited
Overlap ==
    /\ healthPending > 0
    /\ \E i \in 1..Len(requests) : requests[i].stage = "fetch"

\* the connectionStatus, the input and #btn-submit.disabled left by a
\* /health response ending as h followed by a request's response ending as
\* r, and by the same two in the other order
HealthThenResponse(h, r) ==
    LET status1   == statusAfterHealth(h)
        disabled1 == submitAfterHealth(h, inputValue)
    IN  << status1,
           inputAfterResponse(r, inputValue),
           submitAfterResponse(r, inputValue, status1, disabled1) >>

ResponseThenHealth(r, h) ==
    LET input1    == inputAfterResponse(r, inputValue)
        disabled1 == submitAfterResponse(r, inputValue, connectionStatus, submitDisabled)
    IN  << statusAfterHealth(h), input1, submitAfterHealth(h, input1) >>

\* whichever of two awaited responses arrives first, the state after both
\* is the same
SameFinalState ==
    Overlap => \A h \in HealthOutcomes, r \in RequestOutcomes :
                   HealthThenResponse(h, r) = ResponseThenHealth(r, h)

\* C11 as stated: nothing is written by both: the response to a request
\* leaves the connection status, the status banner and the submit button as
\* they were, the response to a health check leaves the results panel, the
\* input and the history as they were; and the order of two awaited
\* responses does not change the final state.
C11_DisjointWrites ==
    /\ []SameFinalState
    /\ [][ /\ lastOp'.op = "response" =>
                UNCHANGED << connectionStatus, statusText, submitDisabled >>
           /\ lastOp'.op = "health" =>
                UNCHANGED << resultsContent, inputValue, operationHistory,
                             storedHistory >> ]_vars

\* C11, amended: the submit button is written by both (by every /health
\* response, and by a successful request's response, which runs
\* validateInput and so also reads the connection status); everything else
\* is written by one of them only; and the order of two awaited responses
\* does not change the final state.
C11_OnlyButtonShared ==
    /\ []SameFinalState
    /\ [][ /\ lastOp'.op = "response" =>
                /\ UNCHANGED << connectionStatus, statusText, healthRequests >>
                /\ submitDisabled' = submitAfterResponse(lastOp'.outcome, inputValue,
                                          connectionStatus, submitDisabled)
           /\ lastOp'.op = "health" =>
                /\ UNCHANGED << resultsContent, inputValue, operationHistory,
                                storedHistory, requests, loadingShown >>
                /\ submitDisabled' = submitAfterHealth(lastOp'.outcome, inputValue) ]_vars

\* a request has succeeded while a health check was awaited, and has
\* disabled the button the health check before it had enabled
C11_Witness ==
    /\ lastOp.op = "response" /\ lastOp.outcome = "success"
    /\ healthPending > 0
    /\ connectionStatus = "connected"
    /\ submitDisabled
    /\ inputValue = << >>

\* C12: after the page has loaded with a stored history that is missing,
\* empty, unparseable or no list, operationHistory is the empty list; after
\* it has loaded with stored settings that are missing, empty, unparseable
\* or of the wrong shape, serviceUrl is the default; and no later
\* addToHistory throws.
C12_LoadFallsBack ==
    /\ ( lastOp.op = "initializeTaskPane" /\ storedHistory.json # "written" )
          => historyValue = "array" /\ operationHistory = << >>
    /\ ( lastOp.op = "initializeTaskPane" /\ storedSettings.json # "written" )
          => serviceUrl = DefaultServiceUrl
    /\ ~( lastOp.op = "response" /\ lastOp.outcome = "threw" )

\* C13: whenever #btn-submit is enabled, connectionStatus is 'connected' and
\* the trimmed input is not empty.
C13_EnabledMeansReady ==
    ~submitDisabled =>
        /\ connectionStatus = "connected"
        /\ trim(inputValue) # << >>

\* the button is still enabled after a quick action has replaced the input
\* without validateInput and its request has failed
C13_Witness ==
    /\ ~submitDisabled
    /\ lastOp.op = "response" /\ lastOp.outcome = "network"
    /\ inputValue = auditSheetText
    /\ healthPending > 0

\* C14: the loading overlay is shown exactly while some handleSubmitRequest
\* invocation that passed the empty check has not completed.
C14_LoadingIffOutstanding ==
    loadingShown <=> requests # << >>

====
